---- MODULE Spec2Model ----
(***************************************************************************)
(* State-machine model of the AsyncQueue class (src/src/AsyncQueue.ts): a  *)
(* priority queue of tasks dispatched under a concurrency limit, with      *)
(* retries, cancellation, pause/run and identity collisions.               *)
(*                                                                         *)
(* JavaScript runs each public method and each promise/timer callback to   *)
(* completion, so every action below is one such run.  A task's work       *)
(* function (task.fn) and its retry timer are the environment: the work    *)
(* settles later with success or failure, the timer fires later.           *)
(***************************************************************************)
EXTENDS Integers, Sequences, FiniteSets

\* ------------------------------------------------------------------ bounds
MaxTasks == 2          \* addTask calls in one behaviour
MaxPriority == 1       \* priorities are 0..MaxPriority
MaxRetries == 1        \* retries are 0..MaxRetries
MaxConcurrency == 2    \* concurrency is 1..MaxConcurrency

Ids == {"A", "B"}
Priorities == 0..MaxPriority
RetryChoices == 0..MaxRetries
TaskRefs == 1..MaxTasks

VARIABLES
  concurrency,   \* AsyncQueue.concurrency
  autoRun,       \* AsyncQueue.autoRun
  queue,         \* AsyncQueue.queue: sequence of task references, head first
  running,       \* AsyncQueue.running: set of task ids
  runningCount,  \* AsyncQueue.runningCount
  paused,        \* AsyncQueue.paused
  tasks,         \* the Task objects, by reference (creation order 1, 2, ...)
  exec,          \* per task: position of its execute() chain and of its promise
  created,       \* number of Task objects created so far
  dispatchLog,   \* history: one entry per queue.shift() of schedule
  cancelCalled   \* history: tasks that were executing when cancelTask(id) named them

vars == <<concurrency, autoRun, queue, running, runningCount, paused, tasks,
          exec, created, dispatchLog, cancelCalled>>

\* ------------------------------------------------------------ Task objects
NoTask == [id |-> "", priority |-> 0, retries |-> 0, canceled |-> FALSE]

\* st: "none" not created, "pending" in the queue, "inflight" awaiting task.fn(),
\* "retrywait" setTimeout pending, "settled" resolve/reject called and the chain
\* over, "dropped" removed from the queue without ever being dispatched.
\* attempt: the argument of the current (or, in retrywait, the next) execute call.
\* invocations: calls of task.fn so far.  settles: calls of resolve/reject so far.
\* outcome: "none", "resolved", "rejectedWork" (reject with the work's error),
\* "rejectedCanceled" (reject with Error("Task canceled")).
NoExec == [st |-> "none", attempt |-> 0, invocations |-> 0, settles |-> 0,
           outcome |-> "none"]

\* The mutable state the methods work on, as one record.
State == [queue |-> queue, running |-> running, runningCount |-> runningCount,
          paused |-> paused, tasks |-> tasks, exec |-> exec,
          dispatchLog |-> dispatchLog]

Commit(s) ==
  /\ queue' = s.queue
  /\ running' = s.running
  /\ runningCount' = s.runningCount
  /\ paused' = s.paused
  /\ tasks' = s.tasks
  /\ exec' = s.exec
  /\ dispatchLog' = s.dispatchLog

\* ------------------------------------------------------------ array helpers
MinOf(S) == CHOOSE x \in S : \A y \in S : x <= y

\* Array.prototype.findIndex / find, given the set of indices whose element
\* satisfies the callback: the first of them, 1-based; 0 where JavaScript
\* gives -1 (or undefined).
FindIndex(hits) == IF hits = {} THEN 0 ELSE MinOf(hits)

\* The indices of q whose task has identity id: (t) => t.id === id
WithId(s, id) == {i \in 1..Len(s.queue) : s.tasks[s.queue[i]].id = id}

\* Mutant of SpliceOut: q.splice(i, 0), nothing is removed.
SpliceOutNothing(q, i) == q

\* q.splice(i, 1)
SpliceOut(q, i) == SubSeq(q, 1, i - 1) \o SubSeq(q, i + 1, Len(q))

\* q.splice(i, 0, x)
SpliceIn(q, i, x) == SubSeq(q, 1, i - 1) \o <<x>> \o SubSeq(q, i, Len(q))

MaxZero(n) == IF n > 0 THEN n ELSE 0

\* ----------------------------------------------------- schedule and execute
RECURSIVE Schedule(_), Execute(_, _, _)

\* finally { running.delete(task.id); runningCount--; schedule() }
Finally(s, t) ==
  Schedule([s EXCEPT !.running = @ \ {s.tasks[t].id},
                     !.runningCount = @ - 1])

\* task.resolve(result), then the finally block.
Resolve(s, t) ==
  Finally([s EXCEPT !.exec[t].st = "settled",
                    !.exec[t].settles = @ + 1,
                    !.exec[t].outcome = "resolved"], t)

\* Mutant of Catch: <= instead of <, one retry too many.
CatchRetryOneMore(s, t, attempt, err) ==
  IF attempt <= s.tasks[t].retries
  THEN Finally([s EXCEPT !.exec[t].st = "retrywait",
                         !.exec[t].attempt = attempt + 1], t)
  ELSE Finally([s EXCEPT !.exec[t].st = "settled",
                         !.exec[t].settles = @ + 1,
                         !.exec[t].outcome = err], t)

\* Mutant of Catch: the `return` after setTimeout is missing, so an attempt
\* that is going to be retried also rejects the completion.
CatchNoReturn(s, t, attempt, err) ==
  IF attempt < s.tasks[t].retries
  THEN Finally([s EXCEPT !.exec[t].st = "retrywait",
                         !.exec[t].attempt = attempt + 1,
                         !.exec[t].settles = @ + 1,
                         !.exec[t].outcome = err], t)
  ELSE Finally([s EXCEPT !.exec[t].st = "settled",
                         !.exec[t].settles = @ + 1,
                         !.exec[t].outcome = err], t)

\* catch (err): a retry is scheduled while attempt < task.retries, otherwise
\* task.reject(err).  `return` inside catch still runs the finally block.
Catch(s, t, attempt, err) ==
  IF attempt < s.tasks[t].retries
  THEN Finally([s EXCEPT !.exec[t].st = "retrywait",
                         !.exec[t].attempt = attempt + 1], t)
  ELSE Finally([s EXCEPT !.exec[t].st = "settled",
                         !.exec[t].settles = @ + 1,
                         !.exec[t].outcome = err], t)

\* Mutant of Execute: the task.canceled test is missing.
ExecuteIgnoresCanceled(s, t, attempt) ==
  [s EXCEPT !.exec[t].st = "inflight",
            !.exec[t].attempt = attempt,
            !.exec[t].invocations = @ + 1]

\* execute(attempt) up to its await: a canceled task throws at once, any other
\* calls task.fn() and waits for it.
Execute(s, t, attempt) ==
  IF s.tasks[t].canceled
  THEN Catch(s, t, attempt, "rejectedCanceled")
  ELSE [s EXCEPT !.exec[t].st = "inflight",
                 !.exec[t].attempt = attempt,
                 !.exec[t].invocations = @ + 1]

\* Mutant of Dispatch: queue.pop() instead of queue.shift().
DispatchPop(s) ==
  LET n == Len(s.queue)
      t == s.queue[n]
      s1 == [s EXCEPT !.queue = SubSeq(@, 1, n - 1),
                      !.runningCount = @ + 1,
                      !.running = @ \cup {s.tasks[t].id},
                      !.dispatchLog = Append(@, [task |-> t,
                                                 rest |-> SubSeq(s.queue, 1, n - 1)])]
  IN Execute(s1, t, 0)

\* One iteration of the while loop of schedule: shift, count, add, execute().
Dispatch(s) ==
  LET t == Head(s.queue)
      s1 == [s EXCEPT !.queue = Tail(@),
                      !.runningCount = @ + 1,
                      !.running = @ \cup {s.tasks[t].id},
                      !.dispatchLog = Append(@, [task |-> t, rest |-> Tail(s.queue)])]
  IN Execute(s1, t, 0)

\* Mutant of Schedule: the `if (this.paused) return` is missing.
ScheduleIgnoresPaused(s) ==
  IF s.runningCount < concurrency /\ Len(s.queue) > 0
  THEN Schedule(Dispatch(s))
  ELSE s

\* schedule(): nothing while paused; otherwise dispatch while capacity and work
\* remain.  A nested schedule() (from a finally that ran synchronously) works on
\* the same fields, so the loop condition is simply re-read after it.
Schedule(s) ==
  IF s.paused THEN s
  ELSE IF s.runningCount < concurrency /\ Len(s.queue) > 0
       THEN Schedule(Dispatch(s))
       ELSE s

\* ------------------------------------------------------------------ methods
\* Mutant of InsertIndex: <= instead of <, a new task goes before its equals.
InsertIndexBeforeEquals(s, priority) ==
  FindIndex({i \in 1..Len(s.queue) : s.tasks[s.queue[i]].priority <= priority})

\* queue.findIndex((t) => t.priority < task.priority)
InsertIndex(s, priority) ==
  FindIndex({i \in 1..Len(s.queue) : s.tasks[s.queue[i]].priority < priority})

\* addTask(fn, {id, priority, retries})
AddTaskState(s, t, id, priority, retries) ==
  LET existingIndex == FindIndex(WithId(s, id))
      s1 == IF existingIndex # 0
            THEN [s EXCEPT !.queue = SpliceOut(@, existingIndex),
                           !.exec[s.queue[existingIndex]].st = "dropped"]
            ELSE s
      found == FindIndex(WithId(s1, id))
      s2 == IF id \in s1.running
            THEN [(IF found # 0
                   THEN [s1 EXCEPT !.tasks[s1.queue[found]].canceled = TRUE]
                   ELSE s1)
                  EXCEPT !.running = @ \ {id},
                         !.runningCount = MaxZero(@ - 1)]
            ELSE s1
      s3 == [s2 EXCEPT !.tasks[t] = [id |-> id, priority |-> priority,
                                     retries |-> retries, canceled |-> FALSE],
                       !.exec[t] = [NoExec EXCEPT !.st = "pending"]]
      index == InsertIndex(s3, priority)
      s4 == [s3 EXCEPT !.queue = IF index = 0 THEN Append(@, t)
                                 ELSE SpliceIn(@, index, t)]
  IN IF autoRun THEN Schedule(s4) ELSE s4

\* cancelTask(id): only a task still in the queue is found.
CancelTaskState(s, id) ==
  LET found == FindIndex(WithId(s, id))
  IN IF found # 0 THEN [s EXCEPT !.tasks[s.queue[found]].canceled = TRUE] ELSE s

\* Mutant of DeleteQueueState: the running bookkeeping is reset as well.
DeleteQueueAndRunning(s) ==
  [s EXCEPT !.queue = <<>>,
            !.running = {},
            !.runningCount = 0,
            !.exec = [t \in DOMAIN s.exec |->
                        IF \E i \in 1..Len(s.queue) : s.queue[i] = t
                        THEN [@[t] EXCEPT !.st = "dropped"] ELSE @[t]]]

\* deleteQueue()
DeleteQueueState(s) ==
  [s EXCEPT !.queue = <<>>,
            !.exec = [t \in DOMAIN s.exec |->
                        IF \E i \in 1..Len(s.queue) : s.queue[i] = t
                        THEN [@[t] EXCEPT !.st = "dropped"] ELSE @[t]]]

\* cancelAllRunning(): cancelTask for every running id, then clear and zero.
RECURSIVE CancelEach(_, _)
CancelEach(s, ids) ==
  IF ids = {} THEN s
  ELSE LET id == CHOOSE x \in ids : TRUE
       IN CancelEach(CancelTaskState(s, id), ids \ {id})

CancelAllRunningState(s) ==
  [CancelEach(s, s.running) EXCEPT !.running = {}, !.runningCount = 0]

\* run()
RunState(s) == Schedule([s EXCEPT !.paused = FALSE])

\* pause()
PauseState(s) == [s EXCEPT !.paused = TRUE]

\* ------------------------------------------------------------------ actions
ExecutingStates == {"inflight", "retrywait"}
Executing(t) == exec[t].st \in ExecutingStates

\* cancelCalled keeps only tasks whose execute() chain is still going on.
StillExecuting(s, ts) == {t \in ts : s.exec[t].st \in ExecutingStates}

Init ==
  /\ concurrency \in 1..MaxConcurrency
  /\ autoRun \in BOOLEAN
  /\ queue = <<>>
  /\ running = {}
  /\ runningCount = 0
  /\ paused = ~autoRun
  /\ tasks = [t \in TaskRefs |-> NoTask]
  /\ exec = [t \in TaskRefs |-> NoExec]
  /\ created = 0
  /\ dispatchLog = <<>>
  /\ cancelCalled = {}

\* A method or callback ran and left the fields as in s.
Apply(s) ==
  /\ Commit(s)
  /\ cancelCalled' = StillExecuting(s, cancelCalled)
  /\ UNCHANGED <<concurrency, autoRun>>

AddTask(id, priority, retries) ==
  /\ created + 1 \in DOMAIN tasks
  /\ created' = created + 1
  /\ Apply(AddTaskState(State, created + 1, id, priority, retries))

CancelTask(id) ==
  /\ Commit(CancelTaskState(State, id))
  /\ cancelCalled' = cancelCalled \cup
                       {t \in DOMAIN tasks : tasks[t].id = id /\ Executing(t)}
  /\ UNCHANGED <<concurrency, autoRun, created>>

DeleteQueue ==
  /\ Apply(DeleteQueueState(State))
  /\ UNCHANGED created

\* cancelAllRunning() calls cancelTask(id) for every id of the running set.
CancelAllRunning ==
  /\ Commit(CancelAllRunningState(State))
  /\ cancelCalled' = cancelCalled \cup
                       {t \in DOMAIN tasks : tasks[t].id \in running /\ Executing(t)}
  /\ UNCHANGED <<concurrency, autoRun, created>>

Run ==
  /\ Apply(RunState(State))
  /\ UNCHANGED created

Pause ==
  /\ Apply(PauseState(State))
  /\ UNCHANGED created

\* The promise of task.fn() fulfils: resolve, finally.
WorkSucceeds(t) ==
  /\ exec[t].st = "inflight"
  /\ Apply(Resolve(State, t))
  /\ UNCHANGED created

\* The promise of task.fn() rejects: catch, finally.
WorkFails(t) ==
  /\ exec[t].st = "inflight"
  /\ Apply(Catch(State, t, exec[t].attempt, "rejectedWork"))
  /\ UNCHANGED created

\* The retry timer fires: execute(attempt + 1).
RetryTimer(t) ==
  /\ exec[t].st = "retrywait"
  /\ Apply(Execute(State, t, exec[t].attempt))
  /\ UNCHANGED created

Next ==
  \/ \E id \in Ids, p \in Priorities, r \in RetryChoices : AddTask(id, p, r)
  \/ \E id \in Ids : CancelTask(id)
  \/ DeleteQueue
  \/ CancelAllRunning
  \/ Run
  \/ Pause
  \/ \E t \in DOMAIN exec : WorkSucceeds(t)
  \/ \E t \in DOMAIN exec : WorkFails(t)
  \/ \E t \in DOMAIN exec : RetryTimer(t)

Spec == Init /\ [][Next]_vars

\* Every work invocation terminates and every retry timer fires.
Fairness ==
  \A t \in TaskRefs :
    /\ WF_vars(WorkSucceeds(t) \/ WorkFails(t))
    /\ WF_vars(RetryTimer(t))

\* opts.priority ?? 0
DefaultPriority == 0

\* The specification of the progress claims: all methods and callbacks, every
\* task at the default priority (priority only orders the pending list; it is
\* not read once a task is dispatched).
NextFair ==
  \/ \E id \in Ids, r \in RetryChoices : AddTask(id, DefaultPriority, r)
  \/ \E id \in Ids : CancelTask(id)
  \/ DeleteQueue
  \/ CancelAllRunning
  \/ Run
  \/ Pause
  \/ \E t \in DOMAIN exec : WorkSucceeds(t)
  \/ \E t \in DOMAIN exec : WorkFails(t)
  \/ \E t \in DOMAIN exec : RetryTimer(t)

FairSpec == Init /\ [][NextFair]_vars /\ Fairness

\* ------------------------------------------------------------------- claims
InFlight == {t \in DOMAIN exec : exec[t].st = "inflight"}

\* C1: the number of tasks whose work invocation is in flight at the same time
\* never exceeds the configured concurrency.
C1_InFlightWithinConcurrency == Cardinality(InFlight) <= concurrency

\* C2: in every reachable state runningCount equals the number of identities in
\* the running set.
C2_CountMirrorsRunningSet == runningCount = Cardinality(running)

\* C3: in every reachable state 0 <= runningCount <= concurrency; in particular
\* the capacity counter never goes negative.
C3_CountInRange == 0 <= runningCount /\ runningCount <= concurrency

\* C4 as stated: every task submitted with addTask has its completion settled
\* exactly once.  A task that is no longer pending and no longer executing can
\* not be settled later, so it must have been settled, once.
C4_EverySubmittedTaskSettlesOnce ==
  \A t \in DOMAIN exec :
    exec[t].st \in {"settled", "dropped"} => exec[t].settles = 1

\* resolve/reject were called at most once for every task, once for a settled
\* task and never for a task that was not dispatched.
C4_SettledAtMostOnce ==
  \A t \in DOMAIN exec :
    /\ exec[t].settles <= 1
    /\ exec[t].st = "settled" => exec[t].settles = 1
    /\ exec[t].st \in {"none", "pending", "dropped"} => exec[t].settles = 0

\* C4 amended: a completion is never settled twice; a task that was dispatched
\* is eventually settled (every work invocation terminating and every retry
\* timer firing); a task removed from the pending list by deleteQueue or by an
\* addTask with its identity is never settled.
C4_DispatchedSettlesOnce ==
  /\ []C4_SettledAtMostOnce
  /\ \A t \in TaskRefs : Executing(t) ~> (exec[t].st = "settled")

\* A retried task was settled once while another task was dropped unsettled.
C4_Witness ==
  \E t, u \in DOMAIN exec :
    /\ exec[t].st = "settled" /\ exec[t].attempt >= 1 /\ exec[t].settles = 1
    /\ exec[u].st = "dropped" /\ exec[u].settles = 0

\* u may stay pending while t is dispatched: u has lower priority, or the same
\* priority and was submitted later (task references grow with submission).
After(t, u) ==
  \/ tasks[u].priority < tasks[t].priority
  \/ tasks[u].priority = tasks[t].priority /\ t < u

\* C5: the pending list is sorted by descending priority, and pending tasks of
\* equal priority appear in the order in which they were submitted.
C5_QueueSortedStable ==
  \A i, j \in 1..Len(queue) : i < j => After(queue[i], queue[j])

\* A later submission of higher priority stands before an earlier one.
C5_Witness ==
  /\ Len(queue) >= 2
  /\ queue[1] > queue[2]
  /\ tasks[queue[1]].priority > tasks[queue[2]].priority

\* C6: every dispatch takes, among the tasks pending at that instant, one of
\* highest priority, and among those the one submitted earliest.
C6_DispatchTakesFirst ==
  \A k \in 1..Len(dispatchLog) :
    \A i \in 1..Len(dispatchLog[k].rest) :
      After(dispatchLog[k].task, dispatchLog[k].rest[i])

\* A dispatch chose between two pending tasks of equal priority.
C6_Witness ==
  \E k \in 1..Len(dispatchLog) :
    /\ dispatchLog[k].rest # <<>>
    /\ tasks[dispatchLog[k].rest[1]].priority = tasks[dispatchLog[k].task].priority

\* C8: a dispatched, never-canceled task is rejected with the work failure only
\* after exactly retries + 1 failed invocations of its work, its work is never
\* invoked more often than that, and once an attempt has succeeded (or the last
\* one has failed) the completion is settled and no further attempt starts.
C8_RetriesThenReject ==
  \A t \in DOMAIN exec :
    ~tasks[t].canceled =>
      /\ exec[t].invocations <= tasks[t].retries + 1
      /\ exec[t].st = "retrywait" => exec[t].invocations <= tasks[t].retries
      /\ exec[t].outcome = "rejectedWork" =>
            exec[t].invocations = tasks[t].retries + 1
      /\ exec[t].outcome = "resolved" => exec[t].invocations = exec[t].attempt + 1
      /\ exec[t].outcome # "none" => exec[t].st = "settled"
      /\ exec[t].st = "settled" => exec[t].outcome \in {"resolved", "rejectedWork"}

\* A task with retries was rejected after all its attempts failed.
C8_Witness ==
  \E t \in DOMAIN exec :
    /\ ~tasks[t].canceled
    /\ tasks[t].retries >= 1
    /\ exec[t].outcome = "rejectedWork"
    /\ exec[t].invocations = tasks[t].retries + 1

\* The work of a task flagged canceled was never invoked; the task is pending,
\* dropped, waiting for a retry, or rejected with the cancellation failure.
C9_CanceledNeverInvoked ==
  \A t \in DOMAIN exec :
    tasks[t].canceled =>
      /\ exec[t].invocations = 0
      /\ exec[t].outcome \in {"none", "rejectedCanceled"}
      /\ exec[t].st \in {"pending", "dropped", "retrywait", "settled"}
      /\ exec[t].st = "settled" => exec[t].outcome = "rejectedCanceled"

\* C9: a task canceled by cancelTask while it was pending never has its work
\* invoked, and once dispatched its completion is rejected with the
\* cancellation failure.
C9_CanceledPendingRejected ==
  /\ []C9_CanceledNeverInvoked
  /\ \A t \in TaskRefs :
        (tasks[t].canceled /\ Executing(t)) ~> (exec[t].outcome = "rejectedCanceled")

\* A task canceled while pending was dispatched, waited for a retry and was
\* then rejected with the cancellation failure.
C9_Witness ==
  \E t \in DOMAIN exec :
    /\ tasks[t].canceled
    /\ exec[t].attempt >= 1
    /\ exec[t].invocations = 0
    /\ exec[t].outcome = "rejectedCanceled"

\* C10 as stated: a task that was in flight (or waiting for a retry) when
\* cancelTask named its identity starts no further work invocation.
C10_CancelInFlightStopsInvocations ==
  [][\A t \in cancelCalled : exec'[t].invocations = exec[t].invocations]_vars

\* ------------------------------------------------- the scenario of claim C7
\* A scheduler with concurrency 1; tasks A, B, C, D are submitted in that order
\* with priorities 0, 5, 2, 5 (any retries, work succeeding or failing at any
\* time); the only other call is one run() after the four submissions when the
\* scheduler was created with autoRun = false.
C7Ids == <<"A", "B", "C", "D">>
C7Priorities == <<0, 5, 2, 5>>

InitC7 ==
  /\ concurrency = 1
  /\ autoRun \in BOOLEAN
  /\ queue = <<>>
  /\ running = {}
  /\ runningCount = 0
  /\ paused = ~autoRun
  /\ tasks = [t \in DOMAIN C7Ids |-> NoTask]
  /\ exec = [t \in DOMAIN C7Ids |-> NoExec]
  /\ created = 0
  /\ dispatchLog = <<>>
  /\ cancelCalled = {}

C7Submit(r) ==
  /\ created < Len(C7Ids)
  /\ AddTask(C7Ids[created + 1], C7Priorities[created + 1], r)

C7Run ==
  /\ created = Len(C7Ids)
  /\ paused
  /\ Run

NextC7 ==
  \/ \E r \in RetryChoices : C7Submit(r)
  \/ C7Run
  \/ \E t \in DOMAIN exec : WorkSucceeds(t)
  \/ \E t \in DOMAIN exec : WorkFails(t)
  \/ \E t \in DOMAIN exec : RetryTimer(t)

SpecC7 == InitC7 /\ [][NextC7]_vars

\* The identities in dispatch order.
DispatchOrder == [k \in 1..Len(dispatchLog) |-> tasks[dispatchLog[k].task].id]

\* C7 as stated: with concurrency 1 and the other options at their defaults
\* (autoRun = true), the four tasks are dispatched in the order B, D, C, A.
C7_DefaultsDispatchBDCA ==
  autoRun => \A k \in 1..Len(dispatchLog) : DispatchOrder[k] = <<"B", "D", "C", "A">>[k]

\* C7 amended: with autoRun = false and run() called after the four
\* submissions the dispatch order is B, D, C, A; with the defaults A is
\* dispatched first, by the addTask call that submits it.
C7_PausedDispatchBDCA ==
  /\ ~autoRun =>
        \A k \in 1..Len(dispatchLog) : DispatchOrder[k] = <<"B", "D", "C", "A">>[k]
  /\ autoRun /\ created >= 1 =>
        /\ Len(dispatchLog) >= 1
        /\ DispatchOrder[1] = "A"
        /\ Len(dispatchLog[1].rest) = 0

\* All four tasks were dispatched after run(), in the order B, D, C, A.
C7_Witness ==
  /\ ~autoRun
  /\ DispatchOrder = <<"B", "D", "C", "A">>

\* ------------------------------------------------------------ claims C11-C20
\* The task references in the pending list.
Pending == {queue[i] : i \in 1..Len(queue)}

\* A step from a paused state to a paused state dispatches nothing, adds no
\* identity to the running set, and a task it creates is in the pending list.
C11_PausedStep ==
  (paused /\ paused') =>
    /\ dispatchLog' = dispatchLog
    /\ running' \subseteq running
    /\ created' # created =>
          /\ exec'[created'].st = "pending"
          /\ \E i \in 1..Len(queue') : queue'[i] = created'

\* run() on a paused scheduler dispatches until the pending list is empty or
\* the capacity counter has reached concurrency (and then at least concurrency
\* identities are in the running set).
C11_RunStep ==
  (paused /\ ~paused') =>
    \/ queue' = <<>>
    \/ /\ runningCount' = concurrency
       /\ Cardinality(running') >= concurrency

C12_IdentitiesUnique ==
  /\ \A i, j \in 1..Len(queue) :
        tasks[queue[i]].id = tasks[queue[j]].id => i = j
  /\ \A i \in 1..Len(queue) : tasks[queue[i]].id \notin running
  /\ \A t \in DOMAIN exec : exec[t].st = "pending" <=> t \in Pending
  /\ \A t \in DOMAIN exec : exec[t].st = "dropped" => exec[t].invocations = 0

\* addTask with the identity of pending task u: u is dropped, and the new task
\* is the only one of that identity in the pending list, or was dispatched by
\* this call and is the one the running set names.
C12_CollisionStep ==
  \A u \in Pending :
    (created' # created /\ tasks'[created'].id = tasks[u].id) =>
      /\ exec'[u].st = "dropped"
      /\ \A i \in 1..Len(queue') :
            tasks'[queue'[i]].id = tasks[u].id => queue'[i] = created'

\* C12: after addTask with an identity that is already pending the prior
\* pending task is gone, its work is never invoked and the identity appears at
\* most once across getQueued() and getRunning(), denoting the new task; in
\* every reachable state the identities of getQueued() are pairwise distinct
\* and none of them is in getRunning().
C12_CollisionReplacesPending ==
  /\ []C12_IdentitiesUnique
  /\ [][C12_CollisionStep]_vars

\* A pending task was replaced by a later one of the same identity, which is
\* now in the pending list.
C12_Witness ==
  \E u \in DOMAIN exec :
    /\ exec[u].st = "dropped"
    /\ \E i \in 1..Len(queue) :
          tasks[queue[i]].id = tasks[u].id /\ queue[i] > u

\* The specification of claim C13: every method except cancelTask, so that the
\* only cancelTask calls are those cancelAllRunning makes.
NextC13 ==
  \/ \E id \in Ids, p \in Priorities, r \in RetryChoices : AddTask(id, p, r)
  \/ DeleteQueue
  \/ CancelAllRunning
  \/ Run
  \/ Pause
  \/ \E t \in DOMAIN exec : WorkSucceeds(t)
  \/ \E t \in DOMAIN exec : WorkFails(t)
  \/ \E t \in DOMAIN exec : RetryTimer(t)

SpecC13 == Init /\ [][NextC13]_vars

\* C13 as stated: a task that was running when cancelAllRunning() was called
\* starts no further work invocation: once its attempt has failed and it waits
\* for a retry, the retry does not invoke the work again, and when it settles
\* from there it is rejected with the cancellation failure.
C13_CancelAllStopsRunning ==
  [][\A t \in cancelCalled :
       exec[t].st = "retrywait" =>
         /\ exec'[t].st # "inflight"
         /\ exec'[t].st = "settled" => exec'[t].outcome = "rejectedCanceled"]_vars

\* ----------------------------------------------------------------- C14
C14_DeleteStep ==
  DeleteQueue =>
    /\ queue' = <<>>
    /\ running' = running
    /\ runningCount' = runningCount
    /\ paused' = paused
    /\ dispatchLog' = dispatchLog
    /\ \A t \in Pending : exec'[t].st = "dropped"
    /\ \A t \in DOMAIN exec :
          Executing(t) => exec'[t] = exec[t] /\ tasks'[t] = tasks[t]

C14_DroppedStep ==
  \A t \in DOMAIN exec : exec[t].st = "dropped" => exec'[t] = exec[t]

C14_DroppedUntouched ==
  \A t \in DOMAIN exec :
    exec[t].st = "dropped" =>
      exec[t].invocations = 0 /\ exec[t].settles = 0 /\ exec[t].outcome = "none"

\* C14: deleteQueue() empties the pending list and leaves the running tasks,
\* the running set, runningCount and the paused flag as they were; a task
\* removed from the pending list has never been invoked or settled and never
\* changes again.
C14_DeleteQueueFrame ==
  /\ []C14_DroppedUntouched
  /\ [][C14_DeleteStep /\ C14_DroppedStep]_vars

\* deleteQueue() has removed a pending task while another task is in flight.
C14_Witness ==
  /\ queue = <<>>
  /\ \E t, u \in DOMAIN exec :
        /\ exec[t].st = "dropped"
        /\ tasks[u].id # tasks[t].id
        /\ exec[u].st = "inflight"
        /\ tasks[u].id \in running
        /\ runningCount = 1

\* ----------------------------------------------------------------- C15
\* C15 as stated: an attempt that fails and is going to be retried leaves the
\* task in the running set and counted in runningCount, and does not re-invoke
\* the dispatch loop, so no pending task is dispatched by that step.
C15_RetryKeepsSlot ==
  [][\A t \in DOMAIN exec :
       (exec[t].st = "inflight" /\ exec'[t].st = "retrywait") =>
         /\ running' = running
         /\ runningCount' = runningCount
         /\ dispatchLog' = dispatchLog]_vars

\* ----------------------------------------------------------------- C16
\* C16 as stated: whatever its number of retries, a task that is canceled when
\* it is dispatched is settled with the cancellation failure by that very
\* attempt; it is not put to wait for a retry.
C16_CanceledSettlesAtOnce ==
  [][\A t \in DOMAIN exec :
       (tasks[t].canceled /\ exec[t].st = "pending"
          /\ exec'[t].st \notin {"pending", "dropped"}) =>
         /\ exec'[t].st = "settled"
         /\ exec'[t].outcome = "rejectedCanceled"]_vars

\* ----------------------------------------------------------------- C17
\* Task t was executing when a later task of the same identity was submitted:
\* a task still executing is neither pending nor settled, so it was dispatched
\* and unsettled at every earlier moment since its dispatch, and table
\* positions follow submission order.
Displaced(t) ==
  /\ Executing(t)
  /\ \E u \in DOMAIN tasks : u > t /\ u <= created /\ tasks[u].id = tasks[t].id

\* C17 as stated: a running task whose identity was submitted again starts no
\* further work invocation: if its attempt fails and it waits for a retry, the
\* retry does not invoke the work, and it settles from there with the
\* cancellation failure.
C17_DisplacedStopsRunning ==
  [][\A t \in DOMAIN exec :
       (Displaced(t) /\ exec[t].st = "retrywait") =>
         /\ exec'[t].st # "inflight"
         /\ exec'[t].st = "settled" => exec'[t].outcome = "rejectedCanceled"]_vars

\* ----------------------------------------------------------------- C18
\* C18 as stated: cancelAllRunning() does not itself free capacity: the number
\* of slots the dispatch loop sees in use (runningCount) is the same after the
\* call as before it, so the next dispatch loop can start no task it could not
\* have started before the call.
C18_CancelAllKeepsCapacity ==
  [][CancelAllRunning =>
       /\ runningCount' = runningCount
       /\ dispatchLog' = dispatchLog]_vars

\* ----------------------------------------------------------------- C19
\* C19 as stated: the scheduler is work-conserving: in every state in which it
\* is not paused and a task is pending, all capacity is in use.
C19_WorkConserving ==
  (~paused /\ queue # <<>>) => runningCount >= concurrency

\* ----------------------------------------------------------------- C20
\* C20 as stated: while a task u that took over the identity of a still
\* executing task t is in flight with its identity in the running set, a step
\* of t (its attempt finishing, or failing into a retry wait) that is not a
\* step of u neither removes that identity from the running set nor lowers
\* runningCount.
C20_DisplacedFinishKeepsOccupant ==
  [][\A t, u \in DOMAIN exec :
       (/\ t < u
        /\ tasks[u].id = tasks[t].id
        /\ exec[t].st = "inflight"
        /\ exec[u].st = "inflight"
        /\ tasks[u].id \in running
        /\ exec'[t].st # "inflight"
        /\ exec'[u] = exec[u]) =>
         /\ tasks[u].id \in running'
         /\ runningCount' >= runningCount]_vars

====
